---- MODULE Spec2Model ----
(***************************************************************************)
(* Model of node-druid-client: the sql template composer (the later,       *)
(* test-covered one and the earlier one of src/sql/sql.ts) and the         *)
(* endpoint selection of the DruidClient constructor.                      *)
(*                                                                         *)
(* Text is a sequence of one-character strings.  A JavaScript value is a   *)
(* record whose field k is its kind.                                       *)
(***************************************************************************)
EXTENDS Integers, Sequences, FiniteSets, TLC

VARIABLES
  parts,        \* the template's literal segments (argument `parts`)
  subSqls,      \* the template's slot values (argument `subSqls`)
  pc,           \* position of the call: "start", "loop", "done", "error"
  sqlTemplate,  \* output segment list
  parameters,   \* output parameter list
  partsStack,   \* pending literal segments
  subSqlStack,  \* pending substitutions
  result,       \* the returned object, NoResult before the return and on a throw
  host,         \* DruidClient constructor argument `host`
  options,      \* DruidClient constructor argument `options`
  endpoint,     \* DruidClient.endpoint
  sqlEndpoint,  \* DruidClient.sqlEndpoint
  headers       \* DruidClient.headers

call == <<parts, subSqls, pc, sqlTemplate, parameters, partsStack, subSqlStack, result>>
client == <<host, options, endpoint, sqlEndpoint, headers>>
vars == <<call, client>>

(***************************************************************************)
(* Bounds                                                                  *)
(***************************************************************************)
\* Total number of slots of a template, the slots of its nested templates included.
MaxSlots == 3

(***************************************************************************)
(* JavaScript values                                                       *)
(***************************************************************************)
Undefined == [k |-> "undefined"]
Null == [k |-> "null"]
Bool(b) == [k |-> "boolean", b |-> b]
Num(n) == [k |-> "number", n |-> n]
Str(s) == [k |-> "string", s |-> s]
\* An object is known by its own keys; a parameter also by its type tag and value.
Obj(keys) == [k |-> "object", keys |-> keys]
Fn(returns) == [k |-> "function", returns |-> returns]

\* types.<TAG>(value): the record {type, value} of the parameter model.
SQLParameter(type, value) ==
  [k |-> "object", keys |-> {"type", "value"}, type |-> type, value |-> value]

\* inlineSQL: the constructor handed to a callback returns its arguments unevaluated.
inlineSQL(strings, inlineParams) ==
  [k |-> "array", strings |-> strings, subs |-> inlineParams]

\* The own property names a value answers hasOwnProperty for.
OwnKeys(a) == IF a.k = "object" THEN a.keys ELSE {}

\* a.hasOwnProperty('type') && a.hasOwnProperty('value'); on undefined it throws.
isSQLParameter(a) == "type" \in OwnKeys(a) /\ "value" \in OwnKeys(a)

TypeOf(a) ==
  CASE a.k = "undefined" -> "undefined"
    [] a.k = "boolean" -> "boolean"
    [] a.k = "number" -> "number"
    [] a.k = "string" -> "string"
    [] a.k = "function" -> "function"
    [] OTHER -> "object"

isSQLLiteral(a) ==
  CASE TypeOf(a) \in {"boolean", "string", "number"} -> TRUE
    [] TypeOf(a) = "object" -> a.k = "null"
    [] OTHER -> FALSE

\* !result
Falsy(a) ==
  \/ a.k \in {"undefined", "null"}
  \/ a.k = "boolean" /\ ~a.b
  \/ a.k = "number" /\ a.n = 0
  \/ a.k = "string" /\ a.s = <<>>

IsArray(a) == a.k = "array"

(***************************************************************************)
(* Text                                                                    *)
(***************************************************************************)
Whitespace == {" ", "\t", "\n"}
UndefinedText == <<"u", "n", "d", "e", "f", "i", "n", "e", "d">>

Digits == <<"0", "1", "2", "3", "4", "5", "6", "7", "8", "9">>

RECURSIVE NatText(_)
NatText(n) ==
  IF n < 10 THEN <<Digits[n + 1]>> ELSE NatText(n \div 10) \o <<Digits[(n % 10) + 1]>>

RECURSIVE Escape(_)
Escape(s) ==
  IF s = <<>> THEN <<>>
  ELSE (IF Head(s) \in {"\"", "\\"} THEN <<"\\", Head(s)>> ELSE <<Head(s)>>)
       \o Escape(Tail(s))

\* JSON.stringify of a value: a function has no JSON text and gives undefined,
\* which a template string renders as the text undefined.
JSONstringify(a) ==
  CASE a.k = "boolean" -> IF a.b THEN <<"t", "r", "u", "e">> ELSE <<"f", "a", "l", "s", "e">>
    [] a.k = "null" -> <<"n", "u", "l", "l">>
    [] a.k = "number" -> IF a.n < 0 THEN <<"-">> \o NatText(-a.n) ELSE NatText(a.n)
    [] a.k = "string" -> <<"\"">> \o Escape(a.s) \o <<"\"">>
    [] OTHER -> UndefinedText

RECURSIVE TrimStart(_)
TrimStart(t) ==
  IF t # <<>> /\ Head(t) \in Whitespace THEN TrimStart(Tail(t)) ELSE t

RECURSIVE TrimEnd(_)
TrimEnd(t) ==
  IF t # <<>> /\ t[Len(t)] \in Whitespace THEN TrimEnd(SubSeq(t, 1, Len(t) - 1)) ELSE t

\* String.prototype.trim
Trim(t) == TrimEnd(TrimStart(t))

\* The value undefined held as an array element (what shift() gives on an empty array).
UndefinedElem == <<"undefined">>

\* An element as a string concatenation renders it.
StrOf(e) == IF e = UndefinedElem THEN UndefinedText ELSE e

\* Array.prototype.join('?'): an undefined element is joined as the empty string.
RECURSIVE Join(_)
Join(segs) ==
  IF segs = <<>> THEN <<>>
  ELSE LET first == IF segs[1] = UndefinedElem THEN <<>> ELSE segs[1]
       IN IF Len(segs) = 1 THEN first ELSE first \o <<"?">> \o Join(Tail(segs))

\* partsStack.shift(): the element removed, and the array left.
Shift(stack) == IF stack = <<>> THEN UndefinedElem ELSE Head(stack)
Shifted(stack) == IF stack = <<>> THEN <<>> ELSE Tail(stack)

\* sqlTemplate[last] += text
AppendLast(segs, text) == [segs EXCEPT ![Len(segs)] = StrOf(@) \o text]

(***************************************************************************)
(* The composer: sql(parts, ...subSqls)                                    *)
(***************************************************************************)
NoResult == [none |-> TRUE]

\* The locals after Array.from(parts), Array.from(subSqls).
Entry(p, s) ==
  [pc |-> "start", sqlTemplate |-> <<>>, parameters |-> <<>>,
   partsStack |-> p, subSqlStack |-> s, result |-> NoResult]

\* sqlTemplate.push(partsStack.shift())
StartStep(st) ==
  [st EXCEPT !.pc = "loop",
             !.sqlTemplate = Append(@, Shift(st.partsStack)),
             !.partsStack = Shifted(@)]

\* Branch with the final else taken as an omission instead of a throw.
BranchIgnoringUnrecognized(st) ==
  LET subSql == Head(st.subSqlStack) IN
  IF subSql = Undefined THEN "undefined"
  ELSE IF isSQLLiteral(subSql) THEN "literal"
  ELSE IF isSQLParameter(subSql) THEN "parameter"
  ELSE IF TypeOf(subSql) = "function" THEN
    LET res == subSql.returns IN
    IF Falsy(res) THEN "fn-falsy"
    ELSE IF isSQLLiteral(res) THEN "fn-literal"
    ELSE IF isSQLParameter(res) THEN "fn-parameter"
    ELSE IF IsArray(res) THEN "fn-inline"
    ELSE "fn-throw"
  ELSE "undefined"

\* The branch the loop body takes for the substitution at the head of the queue.
Branch(st) ==
  LET subSql == Head(st.subSqlStack) IN
  IF subSql = Undefined THEN "undefined"
  ELSE IF isSQLLiteral(subSql) THEN "literal"
  ELSE IF isSQLParameter(subSql) THEN "parameter"
  ELSE IF TypeOf(subSql) = "function" THEN
    LET res == subSql.returns IN
    IF Falsy(res) THEN "fn-falsy"
    ELSE IF isSQLLiteral(res) THEN "fn-literal"
    ELSE IF isSQLParameter(res) THEN "fn-parameter"
    ELSE IF IsArray(res) THEN "fn-inline"
    ELSE "fn-throw"
  ELSE "throw"

\* sqlTemplate[last] += partsStack.shift()
OmitStep(st) ==
  [st EXCEPT !.subSqlStack = Tail(@),
             !.sqlTemplate = AppendLast(@, StrOf(Shift(st.partsStack))),
             !.partsStack = Shifted(@)]

\* LiteralStep with a falsy literal dropped, as a falsy callback result is.
LiteralStepDroppingFalsy(st, v) ==
  [st EXCEPT !.subSqlStack = Tail(@),
             !.sqlTemplate =
               AppendLast(@, (IF Falsy(v) THEN <<>> ELSE JSONstringify(v))
                               \o StrOf(Shift(st.partsStack))),
             !.partsStack = Shifted(@)]

\* sqlTemplate[last] += `${JSON.stringify(v)}${partsStack.shift()}`
LiteralStep(st, v) ==
  [st EXCEPT !.subSqlStack = Tail(@),
             !.sqlTemplate = AppendLast(@, JSONstringify(v) \o StrOf(Shift(st.partsStack))),
             !.partsStack = Shifted(@)]

\* ParameterStep writing the placeholder into the last segment instead of
\* starting a new one.
ParameterStepFused(st, v) ==
  [st EXCEPT !.subSqlStack = Tail(@),
             !.sqlTemplate = AppendLast(@, <<"?">> \o StrOf(Shift(st.partsStack))),
             !.partsStack = Shifted(@),
             !.parameters = Append(@, v)]

\* sqlTemplate.push(partsStack.shift()); parameters.push(v)
ParameterStep(st, v) ==
  [st EXCEPT !.subSqlStack = Tail(@),
             !.sqlTemplate = Append(@, Shift(st.partsStack)),
             !.partsStack = Shifted(@),
             !.parameters = Append(@, v)]

\* partsStack after a nested template of more than one segment is spliced in.
SpliceParts(inlineStrings, stack) ==
  LET n == Len(inlineStrings)
      fused == inlineStrings[n] \o StrOf(Shift(stack))
  IN SubSeq(inlineStrings, 2, n - 1) \o <<fused>> \o Shifted(stack)

\* SpliceSubs with the nested values put behind the pending ones.
SpliceSubsBehind(inlineSubSqls, rest) == rest \o inlineSubSqls

\* SpliceSubs concatenating with the argument subSqls instead of the queue.
SpliceSubsOntoArgument(inlineSubSqls, rest) == inlineSubSqls \o subSqls

\* subSqlStack after a nested template is spliced in (rest: the queue after the shift).
SpliceSubs(inlineSubSqls, rest) == inlineSubSqls \o rest

\* The Array.isArray(result) branch.
InlineStep(st, res) ==
  LET inlineStrings == res.strings
      inlineSubSqls == res.subs
      merged == AppendLast(st.sqlTemplate, StrOf(Shift(inlineStrings)))
  IN IF Len(inlineStrings) = 1
     THEN [st EXCEPT !.subSqlStack = Tail(@), !.sqlTemplate = merged]
     ELSE [st EXCEPT !.subSqlStack = SpliceSubs(inlineSubSqls, Tail(@)),
                     !.sqlTemplate = merged,
                     !.partsStack = SpliceParts(inlineStrings, @)]

\* throw new Error(...)
ThrowStep(st) == [st EXCEPT !.pc = "error", !.subSqlStack = Tail(@)]

\* The object returned once the queue has drained.
Returned(segs, params) ==
  LET query == Trim(Join(segs))
  IN IF Len(params) > 0 THEN [query |-> query, parameters |-> params]
     ELSE [query |-> query]

ReturnStep(st) ==
  [st EXCEPT !.pc = "done", !.result = Returned(st.sqlTemplate, st.parameters)]

\* One step of the call from the locals st.
Step(st) ==
  IF st.pc = "start" THEN StartStep(st)
  ELSE IF st.subSqlStack = <<>> THEN ReturnStep(st)
  ELSE LET subSql == Head(st.subSqlStack)
           b == Branch(st)
       IN CASE b = "undefined" -> OmitStep(st)
            [] b = "literal" -> LiteralStep(st, subSql)
            [] b = "parameter" -> ParameterStep(st, subSql)
            [] b = "fn-falsy" -> OmitStep(st)
            [] b = "fn-literal" -> LiteralStep(st, subSql.returns)
            [] b = "fn-parameter" -> ParameterStep(st, subSql.returns)
            [] b = "fn-inline" -> InlineStep(st, subSql.returns)
            [] OTHER -> ThrowStep(st)

RECURSIVE Run(_)
Run(st) == IF st.pc \in {"done", "error"} THEN st ELSE Run(Step(st))

\* The outcome of sql(p, ...s): the returned object, or the throw.
sql(p, s) ==
  LET end == Run(Entry(p, s))
  IN IF end.pc = "done" THEN end.result ELSE [thrown |-> TRUE]

(***************************************************************************)
(* Templates given to the composer                                         *)
(***************************************************************************)
LevelLetter == <<"a", "b", "c", "d", "e", "f", "g", "h">>
SegStyles == {"bare", "spaced"}

\* Segment i of a template nested d levels deep: a text that names its place,
\* with a blank at each end in the spaced style.
Segment(style, d, i) ==
  LET name == <<LevelLetter[d + 1], Digits[i + 1]>>
  IN IF style = "spaced" THEN <<" ">> \o name \o <<" ">> ELSE name

Segments(style, d, n) == [i \in 1..n |-> Segment(style, d, i)]

ParamA == SQLParameter("VARCHAR", "a")
ParamB == SQLParameter("CHAR", "z")
NotAType == Obj({"not"})

\* Slot values that are not nested templates.
CoreValues ==
  { Undefined, Bool(FALSE), ParamA, ParamB, NotAType,
    Fn(Undefined), Fn(Bool(FALSE)), Fn(Str(<<"x">>)), Fn(ParamB), Fn(NotAType) }

RECURSIVE SlotSeqs(_, _, _, _)
RECURSIVE TemplatesOfSize(_, _, _, _)

\* The values of universe U that take m slots, nested ones included, at depth d.
ValuesOfSize(U, m, d, style) ==
  (IF m = 1 THEN U ELSE {})
    \cup { Fn(inlineSQL(t.strings, t.subs)) : t \in TemplatesOfSize(U, m - 1, d + 1, style) }

SlotSeqs(U, n, d, style) ==
  IF n = 0 THEN { <<>> }
  ELSE UNION { { <<v>> \o r : v \in ValuesOfSize(U, m, d, style),
                              r \in SlotSeqs(U, n - m, d, style) } : m \in 1..n }

\* A template has one more segment than slots.
TemplatesOfSize(U, n, d, style) ==
  { [strings |-> Segments(style, d, Len(s) + 1), subs |-> s] : s \in SlotSeqs(U, n, d, style) }

(***************************************************************************)
(* The call as a state machine                                             *)
(***************************************************************************)
Locals ==
  [pc |-> pc, sqlTemplate |-> sqlTemplate, parameters |-> parameters,
   partsStack |-> partsStack, subSqlStack |-> subSqlStack, result |-> result]

Become(st) ==
  /\ pc' = st.pc
  /\ sqlTemplate' = st.sqlTemplate
  /\ parameters' = st.parameters
  /\ partsStack' = st.partsStack
  /\ subSqlStack' = st.subSqlStack
  /\ result' = st.result
  /\ UNCHANGED <<parts, subSqls, client>>

\* No client is under construction while a template is composed.
NoClient == [none |-> TRUE]
ClientIdle ==
  /\ host = NoClient
  /\ options = NoClient
  /\ endpoint = NoClient
  /\ sqlEndpoint = NoClient
  /\ headers = NoClient

\* The arguments of a call: a template of at most n slots with values of U.
Arguments(U, n, styles) ==
  \E style \in styles, m \in 0..n :
    \E t \in TemplatesOfSize(U, m, 0, style) : parts = t.strings /\ subSqls = t.subs

\* The locals st of the call.
Locally(st) ==
  /\ pc = st.pc
  /\ sqlTemplate = st.sqlTemplate
  /\ parameters = st.parameters
  /\ partsStack = st.partsStack
  /\ subSqlStack = st.subSqlStack
  /\ result = st.result

Init ==
  /\ Arguments(CoreValues, MaxSlots, SegStyles)
  /\ Locally(Entry(parts, subSqls))
  /\ ClientIdle

Looping == pc = "loop" /\ subSqlStack # <<>>

Start == pc = "start" /\ Become(StartStep(Locals))

SubUndefined == Looping /\ Branch(Locals) = "undefined" /\ Become(OmitStep(Locals))

SubLiteral ==
  Looping /\ Branch(Locals) = "literal" /\ Become(LiteralStep(Locals, Head(subSqlStack)))

SubParameter ==
  Looping /\ Branch(Locals) = "parameter" /\ Become(ParameterStep(Locals, Head(subSqlStack)))

FnFalsy == Looping /\ Branch(Locals) = "fn-falsy" /\ Become(OmitStep(Locals))

FnLiteral ==
  Looping /\ Branch(Locals) = "fn-literal"
          /\ Become(LiteralStep(Locals, Head(subSqlStack).returns))

FnParameter ==
  Looping /\ Branch(Locals) = "fn-parameter"
          /\ Become(ParameterStep(Locals, Head(subSqlStack).returns))

FnInline ==
  Looping /\ Branch(Locals) = "fn-inline"
          /\ Become(InlineStep(Locals, Head(subSqlStack).returns))

FnThrow == Looping /\ Branch(Locals) = "fn-throw" /\ Become(ThrowStep(Locals))

SubThrow == Looping /\ Branch(Locals) = "throw" /\ Become(ThrowStep(Locals))

Return == pc = "loop" /\ subSqlStack = <<>> /\ Become(ReturnStep(Locals))

Next ==
  \/ Start
  \/ SubUndefined
  \/ SubLiteral
  \/ SubParameter
  \/ FnFalsy
  \/ FnLiteral
  \/ FnParameter
  \/ FnInline
  \/ FnThrow
  \/ SubThrow
  \/ Return

Spec == Init /\ [][Next]_vars

\* The loop is a sequential program: a step that can be taken is taken.
InitBare ==
  /\ Arguments(CoreValues, MaxSlots, {"bare"})
  /\ Locally(Entry(parts, subSqls))
  /\ ClientIdle

FairSpec == InitBare /\ [][Next]_vars /\ WF_vars(Next)

\* Templates rich in literals, one slot shorter.
LiteralValues ==
  { Undefined, Bool(FALSE), Bool(TRUE), Null, Num(0), Num(12), Str(<<>>),
    Str(<<"h", "\"">>), ParamA, NotAType,
    Fn(Undefined), Fn(Null), Fn(Num(0)), Fn(Str(<<>>)), Fn(Num(1)), Fn(ParamA),
    Fn(NotAType) }

InitLiteral ==
  /\ Arguments(LiteralValues, MaxSlots - 1, SegStyles)
  /\ Locally(Entry(parts, subSqls))
  /\ ClientIdle

SpecLiteral == InitLiteral /\ [][Next]_vars

(***************************************************************************)
(* The earlier composer, src/sql/sql.ts                                    *)
(***************************************************************************)
\* The locals before the loop: sqlTemplate = [parts[0]], partsStack = Array.from(parts).
OldEntry(p, s) ==
  [pc |-> "loop", sqlTemplate |-> << Shift(p) >>, parameters |-> <<>>,
   partsStack |-> p, subSqlStack |-> s, result |-> NoResult]

\* The branch of the earlier loop body.  Inside the function branch the test
\* subSql === undefined is never true; isSQLParameter throws on undefined.
OldBranch(st) ==
  LET subSql == Head(st.subSqlStack) IN
  IF subSql = Undefined THEN "undefined"
  ELSE IF isSQLLiteral(subSql) THEN "literal"
  ELSE IF isSQLParameter(subSql) THEN "parameter"
  ELSE IF TypeOf(subSql) = "function" THEN
    LET res == subSql.returns IN
    IF isSQLLiteral(res) THEN "fn-literal"
    ELSE IF res = Undefined THEN "fn-throw"
    ELSE IF isSQLParameter(res) THEN "fn-parameter"
    ELSE IF IsArray(res) THEN "fn-inline"
    ELSE "fn-throw"
  ELSE "throw"

\* sqlTemplate[last] += `${JSON.stringify(v)} ${partsStack.shift()}`
OldLiteralStep(st, v) ==
  [st EXCEPT !.subSqlStack = Tail(@),
             !.sqlTemplate =
               AppendLast(@, JSONstringify(v) \o <<" ">> \o StrOf(Shift(st.partsStack))),
             !.partsStack = Shifted(@)]

\* const [firstStr, ...restStrs] = result[0]; both queues get the rest in front.
OldInlineStep(st, res) ==
  [st EXCEPT !.subSqlStack = res.subs \o Tail(@),
             !.sqlTemplate = AppendLast(@, StrOf(Shift(res.strings))),
             !.partsStack = Shifted(res.strings) \o @]

\* return { query: partsStack.join('?'), parameters }
OldReturnStep(st) ==
  [st EXCEPT !.pc = "done",
             !.result = [query |-> Join(st.partsStack), parameters |-> st.parameters]]

InitOld ==
  /\ Arguments(CoreValues, MaxSlots, SegStyles)
  /\ Locally(OldEntry(parts, subSqls))
  /\ ClientIdle

OldSubUndefined == Looping /\ OldBranch(Locals) = "undefined" /\ Become(OmitStep(Locals))

OldSubLiteral ==
  Looping /\ OldBranch(Locals) = "literal"
          /\ Become(OldLiteralStep(Locals, Head(subSqlStack)))

OldSubParameter ==
  Looping /\ OldBranch(Locals) = "parameter"
          /\ Become(ParameterStep(Locals, Head(subSqlStack)))

\* The earlier code stringifies the callback itself, not its result.
OldFnLiteral ==
  Looping /\ OldBranch(Locals) = "fn-literal"
          /\ Become(OldLiteralStep(Locals, Head(subSqlStack)))

OldFnParameter ==
  Looping /\ OldBranch(Locals) = "fn-parameter"
          /\ Become(ParameterStep(Locals, Head(subSqlStack).returns))

OldFnInline ==
  Looping /\ OldBranch(Locals) = "fn-inline"
          /\ Become(OldInlineStep(Locals, Head(subSqlStack).returns))

OldFnThrow == Looping /\ OldBranch(Locals) = "fn-throw" /\ Become(ThrowStep(Locals))

OldSubThrow == Looping /\ OldBranch(Locals) = "throw" /\ Become(ThrowStep(Locals))

OldReturn == pc = "loop" /\ subSqlStack = <<>> /\ Become(OldReturnStep(Locals))

NextOld ==
  \/ OldSubUndefined
  \/ OldSubLiteral
  \/ OldSubParameter
  \/ OldFnLiteral
  \/ OldFnParameter
  \/ OldFnInline
  \/ OldFnThrow
  \/ OldSubThrow
  \/ OldReturn

SpecOld == InitOld /\ [][NextOld]_vars

(***************************************************************************)
(* new DruidClient(host, options)                                          *)
(***************************************************************************)
TlsPort == 8282
PlainPort == 8082

\* a ?? b
Nullish(a, b) == IF a \in {Undefined, Null} THEN b ELSE a

\* options?.name
Opt(o, name) == IF o \in {Undefined, Null} THEN Undefined ELSE o[name]

\* options?.port ?? options?.tls ? 8282 : 8082, as the language groups it:
\* the conditional applies to the whole of options?.port ?? options?.tls.
clientPort(o) ==
  IF ~Falsy(Nullish(Opt(o, "port"), Opt(o, "tls"))) THEN TlsPort ELSE PlainPort

protocol(o) == IF ~Falsy(Opt(o, "tls")) THEN "https" ELSE "http"

\* `${protocol}://${host}:${clientPort}/druid/v2`
Endpoint(h, o) ==
  [protocol |-> protocol(o), host |-> h, port |-> clientPort(o), path |-> <<"druid", "v2">>]

\* `${this.endpoint}/sql`
SqlEndpoint(e) == [e EXCEPT !.path = @ \o <<"sql">>]

\* Buffer.from(`${username}:${password}`).toString('base64')
BasicToken(auth) == [base64 |-> <<auth.username, ":", auth.password>>]

Headers(o) ==
  LET base == [Accept |-> "application/json", ContentType |-> "application/json"]
  IN IF ~Falsy(Opt(o, "auth"))
     THEN [Accept |-> base.Accept, ContentType |-> base.ContentType,
           Authorization |-> <<"Basic", BasicToken(Opt(o, "auth"))>>]
     ELSE base

Hosts == {"localhost", "10.0.0.7", "druid.example.com"}
Ports == {Undefined, Num(443), Num(8082), Num(9000)}
Auths ==
  { Undefined,
    [k |-> "object", keys |-> {"username", "password"}, username |-> "u", password |-> "p"],
    [k |-> "object", keys |-> {"username", "password"}, username |-> "admin", password |-> ""] }

OptionsSet ==
  { Undefined } \cup
  { [k |-> "object", keys |-> {"port", "tls", "auth"}, port |-> p, tls |-> s, auth |-> a] :
      p \in Ports, s \in {Undefined, Bool(FALSE), Bool(TRUE)}, a \in Auths }

InitClient ==
  /\ parts = <<>>
  /\ subSqls = <<>>
  /\ pc = "new"
  /\ sqlTemplate = <<>>
  /\ parameters = <<>>
  /\ partsStack = <<>>
  /\ subSqlStack = <<>>
  /\ result = NoResult
  /\ ClientIdle

Construct(h, o) ==
  /\ pc = "new"
  /\ pc' = "constructed"
  /\ host' = h
  /\ options' = o
  /\ endpoint' = Endpoint(h, o)
  /\ sqlEndpoint' = SqlEndpoint(Endpoint(h, o))
  /\ headers' = Headers(o)
  /\ UNCHANGED <<parts, subSqls, sqlTemplate, parameters, partsStack, subSqlStack, result>>

NextClient == \E h \in Hosts, o \in OptionsSet : Construct(h, o)

SpecClient == InitClient /\ [][NextClient]_vars

(***************************************************************************)
(* What the claims speak of                                                *)
(***************************************************************************)
Ended == pc \in {"done", "error"}

\* The outcome of the call in progress, comparable with sql(p, s).
Outcome == IF pc = "done" THEN result ELSE [thrown |-> TRUE]

IsLiteralValue(v) == v.k \in {"string", "number", "boolean", "null"}
IsParameterValue(v) == v.k = "object" /\ {"type", "value"} \subseteq v.keys
IsNested(v) == v.k = "function" /\ v.returns.k = "array"

\* A slot that contributes nothing: undefined, or a callback returning a falsy value.
IsOmitted(v) ==
  \/ v = Undefined
  \/ /\ v.k = "function"
     /\ v.returns \in {Undefined, Bool(FALSE), Null, Str(<<>>), Num(0)}

\* The parameters the slots resolve to, in source order, nested templates in place.
RECURSIVE ParametersIn(_)
ParametersIn(subs) ==
  IF subs = <<>> THEN <<>>
  ELSE LET v == Head(subs)
           here == IF IsParameterValue(v) THEN <<v>>
                   ELSE IF v.k # "function" THEN <<>>
                   ELSE IF IsParameterValue(v.returns) THEN <<v.returns>>
                   ELSE IF v.returns.k = "array" THEN ParametersIn(v.returns.subs)
                   ELSE <<>>
       IN here \o ParametersIn(Tail(subs))

\* Some slot, at any depth, holds a value of no recognized kind.
RECURSIVE HasUnrecognized(_)
HasUnrecognized(subs) ==
  \E i \in 1..Len(subs) :
    LET v == subs[i] IN
    IF v.k = "function"
    THEN IF v.returns.k = "array" THEN HasUnrecognized(v.returns.subs)
         ELSE ~(IsOmitted(v) \/ IsLiteralValue(v.returns) \/ IsParameterValue(v.returns))
    ELSE ~(v = Undefined \/ IsLiteralValue(v) \/ IsParameterValue(v))

\* The template with the nested template of slot i written inline.
InlineAt(p, s, i) ==
  LET in == s[i].returns.strings
      n == Len(in)
      mid == IF n = 1 THEN << p[i] \o in[1] \o p[i + 1] >>
             ELSE << p[i] \o in[1] >> \o SubSeq(in, 2, n - 1) \o << in[n] \o p[i + 1] >>
  IN [strings |-> SubSeq(p, 1, i - 1) \o mid \o SubSeq(p, i + 2, Len(p)),
      subs |-> SubSeq(s, 1, i - 1) \o s[i].returns.subs \o SubSeq(s, i + 1, Len(s))]

\* text holds sub as a contiguous run.
Contains(text, sub) ==
  \E k \in 0..(Len(text) - Len(sub)) : SubSeq(text, k + 1, k + Len(sub)) = sub

\* For every omitted slot, at any depth, the segment before it followed
\* directly by the segment after it.
RECURSIVE OmittedJoins(_, _)
OmittedJoins(p, s) ==
  UNION { IF IsOmitted(s[i]) THEN { p[i] \o p[i + 1] }
          ELSE IF IsNested(s[i])
               THEN OmittedJoins(s[i].returns.strings, s[i].returns.subs)
               ELSE {} : i \in 1..Len(s) }

RECURSIVE CountOf(_, _)
CountOf(c, text) ==
  IF text = <<>> THEN 0
  ELSE (IF Head(text) = c THEN 1 ELSE 0) + CountOf(c, Tail(text))

RECURSIVE CountIn(_, _)
CountIn(c, segs) ==
  IF segs = <<>> THEN 0 ELSE CountOf(c, Head(segs)) + CountIn(c, Tail(segs))

\* The JSON text of the literals the templates use, written out.
JsonTextOf(v) ==
  CASE v = Bool(FALSE) -> <<"f", "a", "l", "s", "e">>
    [] v = Bool(TRUE) -> <<"t", "r", "u", "e">>
    [] v = Null -> <<"n", "u", "l", "l">>
    [] v = Num(0) -> <<"0">>
    [] v = Num(1) -> <<"1">>
    [] v = Num(12) -> <<"1", "2">>
    [] v = Str(<<>>) -> <<"\"", "\"">>
    [] v = Str(<<"x">>) -> <<"\"", "x", "\"">>
    [] v = Str(<<"h", "\"">>) -> <<"\"", "h", "\\", "\"", "\"">>

(***************************************************************************)
(* Claims                                                                  *)
(***************************************************************************)

\* C1: composing a template gives the same result (or the same throw) as
\* composing the template in which the nested template a callback returns at a
\* slot is written inline at that slot.
C1_NestedIsInline ==
  Ended =>
    \A i \in 1..Len(subSqls) :
      IsNested(subSqls[i]) =>
        LET t == InlineAt(parts, subSqls, i) IN Outcome = sql(t.strings, t.subs)

\* C2: the returned parameters are exactly the parameters the slots resolve to,
\* in left-to-right source order, nested ones at the place of their slot.
C2_ParametersInOrder ==
  pc = "done" =>
    /\ parameters = ParametersIn(subSqls)
    /\ Len(parameters) > 0 => result.parameters = ParametersIn(subSqls)

C2_Witness ==
  /\ pc = "done"
  /\ \E i, j \in 1..Len(subSqls) :
       /\ i < j
       /\ IsNested(subSqls[i])
       /\ ParametersIn(subSqls[i].returns.subs) # <<>>
       /\ IsParameterValue(subSqls[j])
       /\ subSqls[j] # ParametersIn(subSqls[i].returns.subs)[1]

\* C3: a literal popped from the substitution queue, falsy or not, is
\* rendered as its JSON text and fused with the next pending segment onto the
\* last output segment; no output segment and no parameter is added.
C3_LiteralRendered ==
  [][ (pc = "loop" /\ subSqlStack # <<>> /\ IsLiteralValue(Head(subSqlStack))) =>
        /\ pc' = "loop"
        /\ subSqlStack' = Tail(subSqlStack)
        /\ partsStack # <<>>
        /\ partsStack' = Tail(partsStack)
        /\ Len(sqlTemplate') = Len(sqlTemplate)
        /\ \A i \in 1..(Len(sqlTemplate) - 1) : sqlTemplate'[i] = sqlTemplate[i]
        /\ sqlTemplate'[Len(sqlTemplate)] =
             sqlTemplate[Len(sqlTemplate)] \o JsonTextOf(Head(subSqlStack)) \o Head(partsStack)
        /\ parameters' = parameters ]_vars

\* The falsy literal null, the one slot of a spliced nested template, has been
\* rendered into the query.
C3_Witness ==
  /\ pc = "done"
  /\ Len(subSqls) = 1
  /\ IsNested(subSqls[1])
  /\ subSqls[1].returns.subs = << Null >>
  /\ Contains(result.query, <<"n", "u", "l", "l">>)
  /\ "parameters" \notin DOMAIN result

\* C4: in the query returned, the segment before an omitted slot (at any depth)
\* is followed directly by the segment after it, interior blanks kept, only the
\* ends of the query trimmed.
C4_OmittedContributesNothing ==
  pc = "done" =>
    \A joined \in OmittedJoins(parts, subSqls) : Contains(result.query, Trim(joined))

\* C5: in the loop and at the return there is one more output segment than
\* parameters; the query holds one placeholder per parameter beyond the
\* question marks of the segments, and the result carries parameters exactly
\* when some slot resolved to a parameter.
C5_OnePlaceholderPerParameter ==
  /\ pc \in {"loop", "done"} => Len(sqlTemplate) = Len(parameters) + 1
  /\ pc = "done" =>
       /\ CountOf("?", result.query) = CountIn("?", sqlTemplate) + Len(parameters)
       /\ ("parameters" \in DOMAIN result) <=> (ParametersIn(subSqls) # <<>>)

C5_Witness ==
  /\ pc = "done"
  /\ "parameters" \in DOMAIN result
  /\ Len(result.parameters) = 2
  /\ CountOf("?", result.query) = 2

\* C6: a template holding an unrecognized slot value or callback result, at
\* any depth, never returns: the call throws and there is no result.
C6_UnrecognizedThrows ==
  /\ HasUnrecognized(subSqls) =>
       /\ pc # "done"
       /\ result = NoResult
       /\ "thrown" \in DOMAIN sql(parts, subSqls)
  /\ pc = "error" => result = NoResult

\* The throw comes after a parameter and a segment were already put out.
C6_Witness ==
  /\ pc = "error"
  /\ Len(parameters) >= 1
  /\ Len(sqlTemplate) >= 2
  /\ result = NoResult

\* C7: at the head of every iteration the pending-segment queue and the
\* pending-substitution queue have the same length.
C7_QueuesAligned == pc = "loop" => Len(partsStack) = Len(subSqlStack)

\* C8: every iteration removes one pending substitution and adds at most the
\* slot values of one nested template, and the call ends: it returns with the
\* substitution queue empty or throws.
C8_Terminates ==
  /\ [][ (pc = "loop" /\ subSqlStack # <<>> /\ subSqlStack' # subSqlStack) =>
           LET v == Head(subSqlStack)
               added == IF IsNested(v) THEN Len(v.returns.subs) ELSE 0
           IN /\ Len(subSqlStack') >= Len(subSqlStack) - 1
              /\ Len(subSqlStack') <= Len(subSqlStack) - 1 + added ]_vars
  /\ [](pc = "done" => subSqlStack = <<>>)
  /\ <>Ended

\* A call that spliced a nested template of two slots has returned.
C8_Witness ==
  /\ pc = "done"
  /\ subSqlStack = <<>>
  /\ \E i \in 1..Len(subSqls) : IsNested(subSqls[i]) /\ Len(subSqls[i].returns.subs) = 2

\* Slots that never resolve to a literal: omitted values, parameters, and
\* callbacks returning parameters or nested templates of these.
RECURSIVE LiteralFree(_)
LiteralFree(subs) ==
  \A i \in 1..Len(subs) :
    LET v == subs[i] IN
    \/ v = Undefined
    \/ IsParameterValue(v)
    \/ v.k = "function" /\ IsParameterValue(v.returns)
    \/ IsNested(v) /\ LiteralFree(v.returns.subs)

\* C9: on a template none of whose slots resolves to a literal, the earlier
\* composer returns the query of the later composer up to trimming of its
\* ends, and the same parameter list (absent counting as empty).
C9_ComposersAgree ==
  (pc = "done" /\ LiteralFree(subSqls)) =>
    LET later == sql(parts, subSqls) IN
    /\ "query" \in DOMAIN later
    /\ Trim(result.query) = Trim(later.query)
    /\ result.parameters =
         (IF "parameters" \in DOMAIN later THEN later.parameters ELSE <<>>)

\* C10: the endpoint carries options.port when one is supplied, otherwise 8282
\* with tls set and 8082 without; the SQL endpoint is the endpoint plus /sql.
C10_PortChosen ==
  pc = "constructed" =>
    LET given == Opt(options, "port")
        wanted == IF given # Undefined THEN given.n
                  ELSE IF Opt(options, "tls") = Bool(TRUE) THEN 8282 ELSE 8082
    IN /\ endpoint.port = wanted
       /\ sqlEndpoint = [endpoint EXCEPT !.path = <<"druid", "v2", "sql">>]

====
